---- MODULE Spec2Model ----
(***************************************************************************)
(* Model of the lcs crate (src/src/lib.rs): the LCS table built by         *)
(* Lcs::new, the length() query and the backtrack(ordering) walk.          *)
(* Sequences are 1-based here; the code's source[x-1] is source[x] below.  *)
(***************************************************************************)
EXTENDS Integers, Sequences, FiniteSets, TLC

\* Bounds of the model.
MaxLen == 2
NumElems == 2
MaxCalls == 2

Elems == 1..NumElems

RECURSIVE SeqsUpTo(_)
SeqsUpTo(n) ==
  IF n = 0 THEN {<<>>}
  ELSE LET S == SeqsUpTo(n - 1) IN
       S \cup {Append(s, e) : s \in {t \in S : Len(t) = n - 1}, e \in Elems}

Inputs == SeqsUpTo(MaxLen)

\* enum Ordering
Orderings == {"DeleteFirst", "InsertFirst"}

\* enum Diff<'a, T>
Common(e) == [tag |-> "Common", elem |-> e]
Delete(e) == [tag |-> "Delete", elem |-> e]
Insert(e) == [tag |-> "Insert", elem |-> e]

Max(a, b) == IF a >= b THEN a ELSE b
Min(a, b) == IF a <= b THEN a ELSE b

\* vec![vec![0; 1 + source.len()]; 1 + dest.len()]
ZeroMatrix(src, dst) == [yy \in 0..Len(dst) |-> [xx \in 0..Len(src) |-> 0]]

\* Mutants of the inner loop body of Lcs::new.
CellValueNoMax(mat, src, dst, yy, xx) ==
  IF src[xx] = dst[yy]
    THEN mat[yy-1][xx-1] + 1
    ELSE mat[yy][xx-1]

CellValueMin(mat, src, dst, yy, xx) ==
  IF src[xx] = dst[yy]
    THEN mat[yy-1][xx-1] + 1
    ELSE Min(mat[yy][xx-1], mat[yy-1][xx])

\* The body of the inner loop of Lcs::new: the value stored in matrix[y][x].
CellValue(mat, src, dst, yy, xx) ==
  IF src[xx] = dst[yy]
    THEN mat[yy-1][xx-1] + 1
    ELSE Max(mat[yy][xx-1], mat[yy-1][xx])

\* for y in 1..=dest.len() { for x in 1..=source.len() { ... } }
RECURSIVE FillFrom(_, _, _, _, _)
FillFrom(mat, src, dst, yy, xx) ==
  IF yy > Len(dst) THEN mat
  ELSE IF xx > Len(src) THEN FillFrom(mat, src, dst, yy + 1, 1)
  ELSE FillFrom([mat EXCEPT ![yy][xx] = CellValue(mat, src, dst, yy, xx)],
                src, dst, yy, xx + 1)

\* Lcs::new
New(src, dst) ==
  [source |-> src, dest |-> dst,
   matrix |-> FillFrom(ZeroMatrix(src, dst), src, dst, 1, 1)]

\* Lcs::length
length(l) == l.matrix[Len(l.dest)][Len(l.source)]

\* Vec::reverse
RECURSIVE Reverse(_)
Reverse(s) == IF s = <<>> THEN <<>> ELSE Append(Reverse(Tail(s)), Head(s))

VARIABLES
  lcs,       \* the constructed Lcs { source, dest, matrix }
  pc,        \* "idle" | "loop" | "done" | "panicked": position of backtrack
  ordering,  \* the argument of the backtrack call in progress / last made
  x, y,      \* the locals x and y of backtrack
  track,     \* the local track of backtrack
  ret,       \* the value returned by the last completed backtrack call
  lens,      \* every value length() has returned on this instance
  outcomes,  \* per ordering, every outcome backtrack has had
  completed, \* per ordering, the number of backtrack calls that ended
  calls      \* number of backtrack calls started

vars == <<lcs, pc, ordering, x, y, track, ret, lens, outcomes, completed, calls>>

Init ==
  /\ \E src \in Inputs, dst \in Inputs : lcs = New(src, dst)
  /\ pc = "idle"
  /\ ordering = "DeleteFirst"
  /\ x = 0
  /\ y = 0
  /\ track = <<>>
  /\ ret = <<>>
  /\ lens = {}
  /\ outcomes = [o \in Orderings |-> {}]
  /\ completed = [o \in Orderings |-> 0]
  /\ calls = 0

\* Mutants of the branch selection of backtrack.
BranchNoShortCircuit(l, o, xx, yy) ==
  IF xx > 0 /\ yy > 0 /\ l.source[xx] = l.dest[yy] THEN "Common"
  ELSE IF xx = 0 THEN "Panic"
  ELSE IF yy = 0 THEN "Panic"
  ELSE IF \/ l.matrix[yy-1][xx] > l.matrix[yy][xx-1]
          \/ (o = "DeleteFirst" /\ l.matrix[yy-1][xx] = l.matrix[yy][xx-1])
       THEN "Insert"
  ELSE "Delete"

BranchFlippedTie(l, o, xx, yy) ==
  IF xx > 0 /\ yy > 0 /\ l.source[xx] = l.dest[yy] THEN "Common"
  ELSE IF xx = 0 THEN "Insert"
  ELSE IF yy = 0 THEN "Panic"
  ELSE IF \/ l.matrix[yy-1][xx] > l.matrix[yy][xx-1]
          \/ (o = "InsertFirst" /\ l.matrix[yy-1][xx] = l.matrix[yy][xx-1])
       THEN "Insert"
  ELSE "Delete"

BranchNoCommon(l, o, xx, yy) ==
  IF xx = 0 THEN "Insert"
  ELSE IF yy = 0 THEN "Panic"
  ELSE IF \/ l.matrix[yy-1][xx] > l.matrix[yy][xx-1]
          \/ (o = "DeleteFirst" /\ l.matrix[yy-1][xx] = l.matrix[yy][xx-1])
       THEN "Insert"
  ELSE "Delete"

\* The if / else if / else of the loop body of backtrack, at (x, y) with
\* x > 0 or y > 0.  The second condition is evaluated left to right with
\* short-circuit: x == 0 is tested first; otherwise matrix[y-1][x] is read,
\* and with y == 0 the usize subtraction y-1 overflows (panic in a debug
\* build; in a release build it wraps and the index is out of bounds, which
\* panics as well).
Branch(l, o, xx, yy) ==
  IF xx > 0 /\ yy > 0 /\ l.source[xx] = l.dest[yy] THEN "Common"
  ELSE IF xx = 0 THEN "Insert"
  ELSE IF yy = 0 THEN "Panic"
  ELSE IF \/ l.matrix[yy-1][xx] > l.matrix[yy][xx-1]
          \/ (o = "DeleteFirst" /\ l.matrix[yy-1][xx] = l.matrix[yy][xx-1])
       THEN "Insert"
  ELSE "Delete"

\* self.length() called by any reader of the instance.
Length ==
  /\ lens' = lens \cup {length(lcs)}
  /\ UNCHANGED <<lcs, pc, ordering, x, y, track, ret, outcomes, completed, calls>>

\* Entry of backtrack: track = Vec::new(); y = dest.len(); x = source.len().
BacktrackCall ==
  /\ pc \in {"idle", "done", "panicked"}
  /\ calls < MaxCalls
  /\ \E o \in Orderings : ordering' = o
  /\ x' = Len(lcs.source)
  /\ y' = Len(lcs.dest)
  /\ track' = <<>>
  /\ pc' = "loop"
  /\ calls' = calls + 1
  /\ UNCHANGED <<lcs, ret, lens, outcomes, completed>>

LoopCond == y > 0 \/ x > 0

\* A mutant of the Common step that marks the visited cell in the table.
LoopCommonMarks ==
  /\ pc = "loop"
  /\ LoopCond
  /\ Branch(lcs, ordering, x, y) = "Common"
  /\ x' = x - 1
  /\ y' = y - 1
  /\ track' = Append(track, Common(lcs.source[x]))
  /\ lcs' = [lcs EXCEPT !.matrix[y][x] = 0]
  /\ UNCHANGED <<pc, ordering, ret, lens, outcomes, completed, calls>>

\* x -= 1; y -= 1; track.push(Diff::Common(&self.source[x]))
LoopCommon ==
  /\ pc = "loop"
  /\ LoopCond
  /\ Branch(lcs, ordering, x, y) = "Common"
  /\ x' = x - 1
  /\ y' = y - 1
  /\ track' = Append(track, Common(lcs.source[x]))
  /\ UNCHANGED <<lcs, pc, ordering, ret, lens, outcomes, completed, calls>>

\* y -= 1; track.push(Diff::Insert(&self.dest[y]))
LoopInsert ==
  /\ pc = "loop"
  /\ LoopCond
  /\ Branch(lcs, ordering, x, y) = "Insert"
  /\ y' = y - 1
  /\ track' = Append(track, Insert(lcs.dest[y]))
  /\ UNCHANGED <<lcs, pc, ordering, x, ret, lens, outcomes, completed, calls>>

\* x -= 1; track.push(Diff::Delete(&self.source[x]))
LoopDelete ==
  /\ pc = "loop"
  /\ LoopCond
  /\ Branch(lcs, ordering, x, y) = "Delete"
  /\ x' = x - 1
  /\ track' = Append(track, Delete(lcs.source[x]))
  /\ UNCHANGED <<lcs, pc, ordering, y, ret, lens, outcomes, completed, calls>>

\* self.matrix[y-1][x] evaluated with y == 0: the call panics and unwinds.
LoopPanic ==
  /\ pc = "loop"
  /\ LoopCond
  /\ Branch(lcs, ordering, x, y) = "Panic"
  /\ pc' = "panicked"
  /\ outcomes' = [outcomes EXCEPT ![ordering] = @ \cup {[kind |-> "panic"]}]
  /\ completed' = [completed EXCEPT ![ordering] = @ + 1]
  /\ UNCHANGED <<lcs, ordering, x, y, track, ret, lens, calls>>

\* Loop exit: track.reverse(); track
LoopExit ==
  /\ pc = "loop"
  /\ ~LoopCond
  /\ ret' = Reverse(track)
  /\ pc' = "done"
  /\ outcomes' = [outcomes EXCEPT
                    ![ordering] = @ \cup {[kind |-> "ok", script |-> Reverse(track)]}]
  /\ completed' = [completed EXCEPT ![ordering] = @ + 1]
  /\ UNCHANGED <<lcs, ordering, x, y, track, lens, calls>>

Next ==
  \/ Length
  \/ BacktrackCall
  \/ LoopCommon
  \/ LoopInsert
  \/ LoopDelete
  \/ LoopPanic
  \/ LoopExit

Spec == Init /\ [][Next]_vars


\* ---------------------------------------------------------------------
\* Reference definitions used by the properties.

m == Len(lcs.source)
n == Len(lcs.dest)

Prefix(s, k) == SubSeq(s, 1, k)

RECURSIVE Subseqs(_)
Subseqs(s) ==
  IF s = <<>> THEN {<<>>}
  ELSE LET R == Subseqs(Tail(s)) IN R \cup {<<Head(s)>> \o r : r \in R}

SetMax(S) == CHOOSE v \in S : \A w \in S : w <= v

\* Length of a longest sequence that is a subsequence of both a and b.
RefLcsLen(a, b) == SetMax({Len(c) : c \in Subseqs(a) \cap Subseqs(b)})

RECURSIVE Elements(_, _)
\* The elements of the ops of script whose tag is in tags, in order.
Elements(script, tags) ==
  IF script = <<>> THEN <<>>
  ELSE IF Head(script).tag \in tags
         THEN <<Head(script).elem>> \o Elements(Tail(script), tags)
         ELSE Elements(Tail(script), tags)

CountTag(script, t) == Cardinality({i \in 1..Len(script) : script[i].tag = t})

Finished == pc \in {"done", "panicked"}

\* ---------------------------------------------------------------------
\* C1: round trip -- every backtrack call returns a script whose Common and
\* Delete elements, in order, are source and whose Common and Insert
\* elements, in order, are dest.
C1_RoundTrip ==
  Finished =>
    /\ pc = "done"
    /\ Elements(ret, {"Common", "Delete"}) = lcs.source
    /\ Elements(ret, {"Common", "Insert"}) = lcs.dest

\* C2: every cell matrix[y][x] is the length of a longest common
\* subsequence of source[0..x) and dest[0..y), and length() returns the
\* LCS length of the two full sequences.
C2_TableIsLcs ==
  /\ DOMAIN lcs.matrix = 0..n
  /\ \A yy \in 0..n :
       /\ DOMAIN lcs.matrix[yy] = 0..m
       /\ \A xx \in 0..m :
            lcs.matrix[yy][xx] = RefLcsLen(Prefix(lcs.source, xx), Prefix(lcs.dest, yy))
  /\ \A v \in lens : v = RefLcsLen(lcs.source, lcs.dest)

\* A table for two different sequences with a cell filled by each rule,
\* the max rule choosing between two different neighbours.
C2_Witness ==
  /\ lcs.source # lcs.dest
  /\ lens = {length(lcs)}
  /\ length(lcs) >= 1
  /\ \E yy \in 1..n, xx \in 1..m :
       /\ lcs.source[xx] # lcs.dest[yy]
       /\ lcs.matrix[yy][xx-1] # lcs.matrix[yy-1][xx]
  /\ \E yy \in 1..n, xx \in 1..m : lcs.source[xx] = lcs.dest[yy]

\* C3: with a non-empty source and an empty dest, length() is 0 and
\* backtrack returns normally one Delete per element of source, in order.
C3_EmptyDest ==
  (m > 0 /\ n = 0) =>
    /\ lens \subseteq {0}
    /\ Finished =>
         /\ pc = "done"
         /\ ret = [i \in 1..m |-> Delete(lcs.source[i])]

\* C4: with an empty source and a non-empty dest, length() is 0 and
\* backtrack returns normally one Insert per element of dest, in order;
\* with both empty, length() is 0 and backtrack returns the empty script.
C4_EmptySource ==
  m = 0 =>
    /\ lens \subseteq {0}
    /\ Finished =>
         /\ pc = "done"
         /\ ret = [i \in 1..n |-> Insert(lcs.dest[i])]

C4_Witness ==
  /\ m = 0
  /\ n = MaxLen
  /\ pc = "done"
  /\ Len(ret) = MaxLen
  /\ lens = {0}
  /\ ordering = "InsertFirst"

\* C5: the backtrack loop terminates normally, each iteration having
\* decreased x+y, and the script has exactly m + n - length() operations,
\* length() of them Common.
C5_TerminatesOptimal ==
  /\ pc # "panicked"
  /\ pc = "loop" => x + y + Len(track) + CountTag(track, "Common") = m + n
  /\ pc = "done" =>
       /\ Len(ret) = m + n - length(lcs)
       /\ CountTag(ret, "Common") = length(lcs)

\* C6: a script returned by backtrack(DeleteFirst) has no Insert
\* immediately followed by a Delete, and a script returned by
\* backtrack(InsertFirst) has no Delete immediately followed by an Insert.
C6_TieBreakOrder ==
  pc = "done" =>
    \A i \in 1..(Len(ret) - 1) :
      /\ ordering = "DeleteFirst" =>
           ~(ret[i].tag = "Insert" /\ ret[i+1].tag = "Delete")
      /\ ordering = "InsertFirst" =>
           ~(ret[i].tag = "Delete" /\ ret[i+1].tag = "Insert")

\* A returned DeleteFirst script with a Delete directly before an Insert,
\* chosen at a genuine tie of the two predecessor cells.
C6_Witness ==
  /\ pc = "done"
  /\ ordering = "DeleteFirst"
  /\ \E i \in 1..(Len(ret) - 1) :
       /\ ret[i].tag = "Delete"
       /\ ret[i+1].tag = "Insert"
  /\ \E yy \in 1..n, xx \in 1..m :
       /\ lcs.source[xx] # lcs.dest[yy]
       /\ lcs.matrix[yy-1][xx] = lcs.matrix[yy][xx-1]
       /\ lcs.matrix[yy][xx] > 0

\* C7: for source = dest = A, length() is len(A) and backtrack returns
\* exactly Common(A[0]), ..., Common(A[len-1]).
C7_Identity ==
  lcs.source = lcs.dest =>
    /\ lens \subseteq {m}
    /\ length(lcs) = m
    /\ Finished =>
         /\ pc = "done"
         /\ ret = [i \in 1..m |-> Common(lcs.source[i])]

C7_Witness ==
  /\ lcs.source = lcs.dest
  /\ m = MaxLen
  /\ pc = "done"
  /\ Len(ret) = MaxLen
  /\ lens = {MaxLen}

\* C8: the length of the instance built from (source, dest) equals the
\* length of the instance built from (dest, source).
C8_Symmetry ==
  /\ length(lcs) = length(New(lcs.dest, lcs.source))
  /\ \A v \in lens : v = length(New(lcs.dest, lcs.source))

C8_Witness ==
  /\ m > n
  /\ n >= 1
  /\ lens = {length(lcs)}
  /\ length(lcs) >= 1
  /\ lcs.source[1] # lcs.dest[1]
  /\ length(New(lcs.dest, lcs.source)) = length(lcs)

\* C9: length() and backtrack calls leave source, dest and matrix
\* unchanged, and all calls with the same argument have the same outcome.
C9_QueriesPure ==
  [][/\ lcs' = lcs
     /\ Cardinality(lens') <= 1
     /\ \A o \in Orderings : Cardinality(outcomes'[o]) <= 1]_vars

C9_Witness ==
  /\ \E o \in Orderings :
       /\ completed[o] = 2
       /\ \E r \in outcomes[o] : r.kind = "ok" /\ Len(r.script) > MaxLen
  /\ lens # {}

\* C10: in every state of the walk other than (0, 0) exactly one of the
\* Common, Insert and Delete branches fires, matrix[y-1][x] is read only
\* with y >= 1 and matrix[y][x-1] only with x >= 1, and the successor stays
\* within 0 <= x <= m, 0 <= y <= n.
C10_WalkSafe ==
  /\ pc # "panicked"
  /\ x \in 0..m
  /\ y \in 0..n
  /\ (pc = "loop" /\ LoopCond) =>
       /\ Branch(lcs, ordering, x, y) \in {"Common", "Insert", "Delete"}
       /\ (Branch(lcs, ordering, x, y) # "Common" /\ x # 0) => y >= 1

====
